---- MODULE Spec2Model ----
(***************************************************************************)
(* Model of metar_fetch (src/src/main.rs): the flight-rules classifier,    *)
(* the colour mapper, the serial frame format and the refresh loop of      *)
(* main / set_colors.                                                      *)
(***************************************************************************)
EXTENDS Integers, Sequences, FiniteSets, TLC

(***************************************************************************)
(* Bounds of the model.                                                    *)
(***************************************************************************)
\* number of roster entries of port_map that are modelled (the code has 5)
NumAirports == 3
\* number of refresh ticks explored
MaxTicks == 2
\* longest cloud layer list given to the ceiling classifier
MaxLayers == 2
\* largest visibility given to the visibility classifier, in 1/100 mile
MaxVisibility == 1000

(***************************************************************************)
(* Result<T, anyhow::Error> and Option<T>.                                 *)
(***************************************************************************)
Ok(v) == [ok |-> TRUE, val |-> <<v>>, err |-> ""]
Err(e) == [ok |-> FALSE, val |-> <<>>, err |-> e]
None == <<>>
Some(v) == <<v>>

(***************************************************************************)
(* enum FlightRules and its PartialOrd.                                    *)
(***************************************************************************)
FlightRules == {"LowIfr", "Ifr", "MarginalVfr", "Vfr"}

partial_cmp_IfrAboveMarginal(self, other) ==
    CASE self = "LowIfr" /\ other = "LowIfr" -> "Equal"
      [] self = "LowIfr" /\ other = "Ifr" -> "Less"
      [] self = "LowIfr" /\ other = "MarginalVfr" -> "Less"
      [] self = "LowIfr" /\ other = "Vfr" -> "Less"
      [] self = "Ifr" /\ other = "LowIfr" -> "Greater"
      [] self = "Ifr" /\ other = "Ifr" -> "Equal"
      [] self = "Ifr" /\ other = "MarginalVfr" -> "Greater"
      [] self = "Ifr" /\ other = "Vfr" -> "Less"
      [] self = "MarginalVfr" /\ other = "LowIfr" -> "Greater"
      [] self = "MarginalVfr" /\ other = "Ifr" -> "Less"
      [] self = "MarginalVfr" /\ other = "MarginalVfr" -> "Equal"
      [] self = "MarginalVfr" /\ other = "Vfr" -> "Less"
      [] self = "Vfr" /\ other = "LowIfr" -> "Greater"
      [] self = "Vfr" /\ other = "Ifr" -> "Greater"
      [] self = "Vfr" /\ other = "MarginalVfr" -> "Greater"
      [] self = "Vfr" /\ other = "Vfr" -> "Equal"

partial_cmp(self, other) ==
    CASE self = "LowIfr" /\ other = "LowIfr" -> "Equal"
      [] self = "LowIfr" /\ other = "Ifr" -> "Less"
      [] self = "LowIfr" /\ other = "MarginalVfr" -> "Less"
      [] self = "LowIfr" /\ other = "Vfr" -> "Less"
      [] self = "Ifr" /\ other = "LowIfr" -> "Greater"
      [] self = "Ifr" /\ other = "Ifr" -> "Equal"
      [] self = "Ifr" /\ other = "MarginalVfr" -> "Less"
      [] self = "Ifr" /\ other = "Vfr" -> "Less"
      [] self = "MarginalVfr" /\ other = "LowIfr" -> "Greater"
      [] self = "MarginalVfr" /\ other = "Ifr" -> "Greater"
      [] self = "MarginalVfr" /\ other = "MarginalVfr" -> "Equal"
      [] self = "MarginalVfr" /\ other = "Vfr" -> "Less"
      [] self = "Vfr" /\ other = "LowIfr" -> "Greater"
      [] self = "Vfr" /\ other = "Ifr" -> "Greater"
      [] self = "Vfr" /\ other = "MarginalVfr" -> "Greater"
      [] self = "Vfr" /\ other = "Vfr" -> "Equal"

\* the `<` operator PartialOrd derives from partial_cmp
lt(a, b) == partial_cmp(a, b) = "Less"

(***************************************************************************)
(* Visibility sub-classifier.  A visibility is [unit, visibility] with the *)
(* value in hundredths of the unit, so that 1.0 is 100 and 5.01 is 501.    *)
(***************************************************************************)
DistanceUnits == {"StatuteMiles", "Meters"}

VisibilityRules_ThreeIsIfr(visibility) ==
    IF visibility.unit # "StatuteMiles"
    THEN Err("unsupported visibility distance unit")
    ELSE IF visibility.visibility < 100 THEN Ok("LowIfr")
    ELSE IF visibility.visibility <= 300 THEN Ok("Ifr")
    ELSE IF visibility.visibility <= 500 THEN Ok("MarginalVfr")
    ELSE Ok("Vfr")

VisibilityRules(visibility) ==
    IF visibility.unit # "StatuteMiles"
    THEN Err("unsupported visibility distance unit")
    ELSE IF visibility.visibility < 100 THEN Ok("LowIfr")
    ELSE IF visibility.visibility < 300 THEN Ok("Ifr")
    ELSE IF visibility.visibility <= 500 THEN Ok("MarginalVfr")
    ELSE Ok("Vfr")

(***************************************************************************)
(* Ceiling sub-classifier.  A cloud layer is [coverage, altitude] with the *)
(* altitude an Option in hundreds of feet.                                 *)
(***************************************************************************)
Coverages == {"Few", "Scattered", "Broken", "Overcast"}

\* the `if let Broken(_, Some(altitude)) | Overcast(_, Some(altitude))` test
IsCeilingLayer_AnyCoverage(layer) == layer.altitude # None

IsCeilingLayer(layer) ==
    layer.coverage \in {"Broken", "Overcast"} /\ layer.altitude # None

\* the for loop that pushes the altitudes of the ceiling layers, in order
RECURSIVE CeilingAltitudes(_)
CeilingAltitudes(layers) ==
    IF layers = <<>> THEN <<>>
    ELSE (IF IsCeilingLayer(Head(layers)) THEN <<Head(layers).altitude[1]>> ELSE <<>>)
         \o CeilingAltitudes(Tail(layers))

\* Iterator::min over a vector: None when it is empty
RECURSIVE IterMin(_)
IterMin(s) ==
    IF s = <<>> THEN None
    ELSE LET rest == IterMin(Tail(s))
         IN  IF rest = None \/ Head(s) <= rest[1] THEN Some(Head(s)) ELSE rest

CeilingRules(layers) ==
    IF layers = <<>> THEN "Vfr"
    ELSE LET m == IterMin(CeilingAltitudes(layers))
         IN  IF m = None THEN "Vfr"
             ELSE IF m[1] < 5 THEN "LowIfr"
             ELSE IF m[1] < 10 THEN "Ifr"
             ELSE IF m[1] <= 30 THEN "MarginalVfr"
             ELSE "Vfr"

(***************************************************************************)
(* Combined classifier.  A Metar is [visibility, cloud_layers] with the    *)
(* visibility an Option (Data::Known / Data::Unknown).                     *)
(***************************************************************************)
MetarRules(m) ==
    IF m.visibility = None THEN Err("missing visibility")
    ELSE LET visibility_flight_rules == VisibilityRules(m.visibility[1])
             cloud_layers_flight_rules == CeilingRules(m.cloud_layers)
         IN  IF ~visibility_flight_rules.ok THEN visibility_flight_rules
             ELSE IF lt(visibility_flight_rules.val[1], cloud_layers_flight_rules)
                  THEN visibility_flight_rules
                  ELSE Ok(cloud_layers_flight_rules)

(***************************************************************************)
(* Colour mapper and the frame written for one assignment.                 *)
(***************************************************************************)
ColorOf(rules) ==
    CASE rules = "LowIfr" -> "Purple"
      [] rules = "Ifr" -> "Red"
      [] rules = "MarginalVfr" -> "Blue"
      [] rules = "Vfr" -> "Green"

ColorDisplay(color) ==
    CASE color = "Purple" -> "p"
      [] color = "Red" -> "r"
      [] color = "Blue" -> "b"
      [] color = "Green" -> "g"

DigitChars == <<"0", "1", "2", "3", "4", "5", "6", "7", "8", "9">>

\* Display of a u16: its decimal digits, most significant first
RECURSIVE U16Display(_)
U16Display(n) ==
    IF n < 10 THEN <<DigitChars[n + 1]>>
    ELSE U16Display(n \div 10) \o <<DigitChars[(n % 10) + 1]>>

\* format!("{}{}", color_and_port.port, color_and_port.color).as_bytes()
Frame(color_and_port) ==
    U16Display(color_and_port.port) \o <<ColorDisplay(color_and_port.color)>>

(***************************************************************************)
(* The roster (port_map of main) and the observations a fetch may return.  *)
(***************************************************************************)
PortMapLiteral ==
    [a \in {"KOAK", "KSFO", "KHAF", "KSQL", "KSJC"} |->
        CASE a = "KOAK" -> 1
          [] a = "KSFO" -> 2
          [] a = "KHAF" -> 3
          [] a = "KSQL" -> 4
          [] a = "KSJC" -> 5]

\* the entries of the literal that the model keeps
Roster == {a \in DOMAIN PortMapLiteral : PortMapLiteral[a] <= NumAirports}
port_map == [a \in Roster |-> PortMapLiteral[a]]

\* the orders in which a HashMap may iterate over its entries
IterationOrders ==
    {s \in [1..Cardinality(Roster) -> Roster] : \A a \in Roster : \E k \in DOMAIN s : s[k] = a}

\* parsed METARs the observation service may answer with
SampleMetars ==
    { [visibility |-> Some([unit |-> "StatuteMiles", visibility |-> 1000]),
       cloud_layers |-> <<>>],
      [visibility |-> Some([unit |-> "StatuteMiles", visibility |-> 1000]),
       cloud_layers |-> <<[coverage |-> "Overcast", altitude |-> Some(2)]>>],
      [visibility |-> None,
       cloud_layers |-> <<>>],
      [visibility |-> Some([unit |-> "Meters", visibility |-> 999900]),
       cloud_layers |-> <<>>] }

(***************************************************************************)
(* State.                                                                  *)
(***************************************************************************)
VARIABLES
    pc,           \* where main / set_colors stands
    tick,         \* number of the current refresh tick
    order,        \* iteration order of port_map, fixed for the process
    fut,          \* the futures of set_colors, one per roster airport
    i,            \* position of the result loop in join_all's output
    openHandles,  \* number of serial handles that are open
    wire,         \* bytes put on the serial link in the current tick
    issued,       \* airports whose fetch was started in the current tick
    outcome,      \* result of each airport's future in the current tick
    attempted,    \* airports for which port.write was called in the tick
    acked,        \* assignments whose port.write returned Ok in the tick
    exit,         \* how the last call of set_colors returned
    input,        \* argument of the classifier under test
    output        \* its result

vars == <<pc, tick, order, fut, i, openHandles, wire, issued, outcome,
          attempted, acked, exit, input, output>>

ctlVars == <<pc, tick, order, fut, i, openHandles, wire, issued, outcome,
             attempted, acked, exit>>

NoInput == [kind |-> "none", visibility |-> None, cloud_layers |-> <<>>]

\* a future: created (never polled), fetching (polled, request in flight),
\* done (its output is ready) or dropped
Future(state, result) == [state |-> state, result |-> result]
NoResult == Err("")

\* calling an async fn builds the future without running any of it
NewFuture_Eager == Future("fetching", NoResult)

NewFuture == Future("created", NoResult)

Dropped == Future("dropped", NoResult)

Init ==
    /\ pc = "timer"
    /\ tick = 0
    /\ order \in IterationOrders
    /\ fut = [a \in Roster |-> Dropped]
    /\ i = 0
    /\ openHandles = 0
    /\ wire = <<>>
    /\ issued = {}
    /\ outcome = [a \in Roster |-> None]
    /\ attempted = <<>>
    /\ acked = <<>>
    /\ exit = "none"
    /\ input = NoInput
    /\ output = None

(***************************************************************************)
(* main: the loop awaits set_colors, logs its error and awaits the timer.  *)
(***************************************************************************)
MainAwaitingTimer_Detached == pc \in {"timer", "join", "loop"}

MainAwaitingTimer == pc = "timer"

AfterSetColors_Propagate(result) == IF result = "ok" THEN "timer" ELSE "exited"

AfterSetColors(result) == "timer"

\* the serial handle goes out of scope when set_colors returns
DropPort_LeakOnError(handles, result) == IF result = "ok" THEN handles - 1 ELSE handles

DropPort(handles, result) == handles - 1

\* set_colors returns `result`; `hadPort` tells whether the handle existed
Return(result, hadPort) ==
    /\ fut' = [a \in Roster |-> Dropped]
    /\ openHandles' = IF hadPort THEN DropPort(openHandles, result) ELSE openHandles
    /\ exit' = result
    /\ i' = 0
    /\ pc' = AfterSetColors(result)

\* timer.tick() completes; set_colors is called and builds its futures
TimerTick ==
    /\ MainAwaitingTimer
    /\ tick < MaxTicks
    /\ tick' = tick + 1
    /\ fut' = [a \in Roster |-> NewFuture]
    /\ pc' = "open"
    /\ i' = 0
    /\ wire' = <<>>
    /\ issued' = {}
    /\ outcome' = [a \in Roster |-> None]
    /\ attempted' = <<>>
    /\ acked' = <<>>
    /\ UNCHANGED <<order, openHandles, exit, input, output>>

\* serialport::new(..).open() fails: `?` returns the error
OpenFail ==
    /\ pc = "open"
    /\ Return("open_err", FALSE)
    /\ UNCHANGED <<tick, order, wire, issued, outcome, attempted, acked, input, output>>

\* serialport::new(..).open() succeeds
OpenOk ==
    /\ pc = "open"
    /\ openHandles' = openHandles + 1
    /\ pc' = "join_start"
    /\ UNCHANGED <<tick, order, fut, i, wire, issued, outcome, attempted, acked,
                   exit, input, output>>

\* first poll of join_all(futures): every future starts its request
JoinStart ==
    /\ pc = "join_start"
    /\ fut' = [a \in Roster |-> Future("fetching", NoResult)]
    /\ issued' = Roster
    /\ pc' = "join"
    /\ UNCHANGED <<tick, order, i, openHandles, wire, outcome, attempted, acked,
                   exit, input, output>>

\* flight_rules_color_for_airport on a parsed METAR: classify, map to a colour.
\* The text of an error is only logged, so every error is kept as one value.
ColorAndPortFor(m, port) ==
    LET rules == MetarRules(m)
    IN  IF rules.ok THEN Ok([color |-> ColorOf(rules.val[1]), port |-> port])
        ELSE Err("failed to fetch flight rules")

FinishFetch(a, result) ==
    /\ fut' = [fut EXCEPT ![a] = Future("done", result)]
    /\ outcome' = [outcome EXCEPT ![a] = Some(result)]
    /\ UNCHANGED <<pc, tick, order, i, openHandles, wire, issued, attempted, acked,
                   exit, input, output>>

\* the future of one airport completes, in any order among the airports
FetchDone(a) ==
    /\ pc = "join"
    /\ fut[a].state = "fetching"
    /\ \/ FinishFetch(a, Err("failed to fetch flight rules"))
       \/ \E m \in SampleMetars : FinishFetch(a, ColorAndPortFor(m, port_map[a]))

\* join_all resolves once every future has completed
JoinAllReady == \A a \in Roster : fut[a].state = "done"

JoinDone ==
    /\ pc = "join"
    /\ JoinAllReady
    /\ pc' = "loop"
    /\ i' = 1
    /\ UNCHANGED <<tick, order, fut, openHandles, wire, issued, outcome, attempted,
                   acked, exit, input, output>>

\* loop body, result is an Err: `result.context(..)?` returns
LoopResultErr ==
    /\ pc = "loop"
    /\ i <= Len(order)
    /\ ~fut[order[i]].result.ok
    /\ Return("fetch_err", TRUE)
    /\ UNCHANGED <<tick, order, wire, issued, outcome, attempted, acked, input, output>>

\* loop body, port.write returns Ok(n): n bytes of the frame went out and
\* the count is discarded
LoopWriteOk ==
    /\ pc = "loop"
    /\ i <= Len(order)
    /\ fut[order[i]].result.ok
    /\ LET color_and_port == fut[order[i]].result.val[1]
           frame == Frame(color_and_port)
       IN  \E n \in 1..Len(frame) :
               /\ wire' = wire \o SubSeq(frame, 1, n)
               /\ acked' = Append(acked, color_and_port)
    /\ attempted' = Append(attempted, order[i])
    /\ i' = i + 1
    /\ UNCHANGED <<pc, tick, order, fut, openHandles, issued, outcome, exit, input, output>>

\* loop body, port.write fails or times out: `?` returns
LoopWriteErr ==
    /\ pc = "loop"
    /\ i <= Len(order)
    /\ fut[order[i]].result.ok
    /\ attempted' = Append(attempted, order[i])
    /\ Return("write_err", TRUE)
    /\ UNCHANGED <<tick, order, wire, issued, outcome, acked, input, output>>

\* the loop is over: Ok(())
LoopEnd ==
    /\ pc = "loop"
    /\ i = Len(order) + 1
    /\ Return("ok", TRUE)
    /\ UNCHANGED <<tick, order, wire, issued, outcome, attempted, acked, input, output>>

Next ==
    \/ TimerTick
    \/ OpenFail
    \/ OpenOk
    \/ JoinStart
    \/ \E a \in Roster : FetchDone(a)
    \/ JoinDone
    \/ LoopResultErr
    \/ LoopWriteOk
    \/ LoopWriteErr
    \/ LoopEnd

Spec == Init /\ [][Next]_vars

\* the interval timer fires again and again
FairSpec == Spec /\ WF_vars(TimerTick)

(***************************************************************************)
(* The classifiers on their own: the input is drawn at the start and the   *)
(* classifier it is meant for is applied to it.                            *)
(***************************************************************************)
\* ceiling heights around the limits of CeilingRules, in hundreds of feet
SampleAltitudes == {0, 4, 5, 9, 10, 30, 31, 120}
\* visibilities around the limits of VisibilityRules, in 1/100 mile
SampleVisibilities == {0, 99, 100, 299, 300, 500, 501, 1000}

CloudLayers ==
    [coverage : Coverages, altitude : {None} \cup {Some(x) : x \in SampleAltitudes}]

LayerLists(n) == UNION {[1..k -> CloudLayers] : k \in 0..n}

VisibilityInputs ==
    {[kind |-> "visibility", visibility |-> Some([unit |-> u, visibility |-> v]),
      cloud_layers |-> <<>>] : u \in DistanceUnits, v \in 0..MaxVisibility}

CeilingInputs ==
    {[kind |-> "cloud_layers", visibility |-> None, cloud_layers |-> l] :
        l \in LayerLists(MaxLayers)}

MetarInputs ==
    {[kind |-> "metar", visibility |-> v, cloud_layers |-> l] :
        v \in {None} \cup {Some([unit |-> u, visibility |-> x]) :
                             u \in DistanceUnits, x \in SampleVisibilities},
        l \in LayerLists(1)}

ClassifyInit ==
    /\ pc = "timer"
    /\ tick = 0
    /\ order = CHOOSE s \in IterationOrders : TRUE
    /\ fut = [a \in Roster |-> Dropped]
    /\ i = 0
    /\ openHandles = 0
    /\ wire = <<>>
    /\ issued = {}
    /\ outcome = [a \in Roster |-> None]
    /\ attempted = <<>>
    /\ acked = <<>>
    /\ exit = "none"
    /\ input \in VisibilityInputs \cup CeilingInputs \cup MetarInputs
    /\ output = None

\* FlightRules::try_from(&visibility)
ClassifyVisibility ==
    /\ input.kind = "visibility"
    /\ output = None
    /\ output' = Some(VisibilityRules(input.visibility[1]))
    /\ UNCHANGED <<ctlVars, input>>

\* FlightRules::from(&cloud_layers)
ClassifyCeiling ==
    /\ input.kind = "cloud_layers"
    /\ output = None
    /\ output' = Some(Ok(CeilingRules(input.cloud_layers)))
    /\ UNCHANGED <<ctlVars, input>>

\* FlightRules::try_from(&metar)
ClassifyMetar ==
    /\ input.kind = "metar"
    /\ output = None
    /\ output' = Some(MetarRules([visibility |-> input.visibility,
                                  cloud_layers |-> input.cloud_layers]))
    /\ UNCHANGED <<ctlVars, input>>

ClassifyNext == ClassifyVisibility \/ ClassifyCeiling \/ ClassifyMetar

ClassifySpec == ClassifyInit /\ [][ClassifyNext]_vars

(***************************************************************************)
(* Properties.                                                             *)
(***************************************************************************)
Failed(a) == outcome[a] # None /\ ~outcome[a][1].ok
Succeeded(a) == outcome[a] # None /\ outcome[a][1].ok
WriteAttempted(a) == \E k \in DOMAIN attempted : attempted[k] = a
TickOver == pc = "timer" /\ tick >= 1

\* C1: in a tick where exactly one airport's fetch or classification fails,
\* the link opens and no write fails, every other roster airport still has
\* its frame written in that tick, wherever the failing airport stands in
\* the iteration order.
C1_OthersStillWritten ==
    ( /\ TickOver
      /\ exit \in {"ok", "fetch_err"}
      /\ \A a \in Roster : outcome[a] # None
      /\ Cardinality({a \in Roster : Failed(a)}) = 1 )
    => \A a \in Roster : Succeeded(a) => WriteAttempted(a)

\* C2: when the write of one assignment fails, only that assignment is
\* dropped: the write of every other assignment of the tick is attempted.
C2_RemainingWritesAttempted ==
    (TickOver /\ exit = "write_err")
    => \A a \in Roster : Succeeded(a) => WriteAttempted(a)

\* C3: a failed open of the serial device ends the current tick with no
\* frame written, main goes back to awaiting the timer, the step out of that
\* wait starts a whole new refresh that begins with opening the device, and
\* the timer does bring that step about.
C3_OpenFailureAbortsOnlyTick ==
    /\ [][OpenFail => (pc' = "timer" /\ wire' = <<>> /\ attempted' = <<>>
                       /\ openHandles' = 0)]_vars
    /\ [][(pc = "timer" /\ pc' # "timer")
          => (pc' = "open" /\ tick' = tick + 1 /\ attempted' = <<>>
              /\ \A a \in Roster : fut'[a].state \in {"created", "fetching"}
                                   /\ outcome'[a] = None)]_vars
    /\ ((pc = "timer" /\ exit = "open_err" /\ tick < MaxTicks) ~> (pc = "open"))

C3_Witness == tick = 2 /\ pc = "join" /\ exit = "open_err"

\* C4: the tick number advances only while main awaits the timer, with no
\* serial handle open and no fetch in flight; a fetch begins only before any
\* write of its tick and a write happens only after every fetch of its tick
\* has completed, so fetches and writes of different ticks never interleave.
C4_TicksDoNotInterleave ==
    [][ /\ (tick' # tick)
           => (pc = "timer" /\ openHandles = 0 /\ tick' = tick + 1
               /\ \A a \in Roster : fut[a].state # "fetching")
        /\ (\E a \in Roster : fut'[a].state = "fetching" /\ fut[a].state # "fetching")
           => (attempted' = <<>> /\ wire' = <<>>)
        /\ (attempted' # attempted /\ attempted' # <<>>)
           => (tick' = tick /\ \A a \in Roster : fut[a].state = "done") ]_vars

C4_Witness ==
    /\ tick = 2
    /\ exit = "write_err"
    /\ \E a \in Roster : fut[a].state = "fetching"

\* C5: at most one serial handle is open at any time, and none is open
\* while main awaits the timer, whichever way the tick ended.
C5_HandleReleasedOnEveryExit ==
    /\ openHandles <= 1
    /\ pc = "timer" => openHandles = 0

C5_Witness ==
    TickOver /\ exit = "write_err" /\ attempted # <<>> /\ openHandles = 0

Rank(r) ==
    CASE r = "LowIfr" -> 0
      [] r = "Ifr" -> 1
      [] r = "MarginalVfr" -> 2
      [] r = "Vfr" -> 3

MinRule(a, b) == IF Rank(a) <= Rank(b) THEN a ELSE b

\* C6: for an observation with a known visibility in statute miles the
\* classifier returns the minimum of the visibility rule and the ceiling
\* rule under LowIfr < Ifr < MarginalVfr < Vfr.
C6_CombinedIsMin ==
    ( /\ input.kind = "metar"
      /\ output # None
      /\ input.visibility # None
      /\ input.visibility[1].unit = "StatuteMiles" )
    => output[1] = Ok(MinRule(VisibilityRules(input.visibility[1]).val[1],
                              CeilingRules(input.cloud_layers)))

C6_Witness ==
    /\ input.kind = "metar"
    /\ input.visibility = Some([unit |-> "StatuteMiles", visibility |-> 299])
    /\ input.cloud_layers = <<[coverage |-> "Broken", altitude |-> Some(30)]>>
    /\ output = Some(Ok("Ifr"))

\* C7: a statute-mile visibility v is LowIfr when v < 1.0, Ifr when
\* 1.0 <= v < 3.0, MarginalVfr when 3.0 <= v <= 5.0 and Vfr when v > 5.0.
C7_VisibilityTable ==
    ( /\ input.kind = "visibility"
      /\ output # None
      /\ input.visibility[1].unit = "StatuteMiles" )
    => LET v == input.visibility[1].visibility
           r == output[1]
       IN  /\ r.ok
           /\ v < 100 => r.val[1] = "LowIfr"
           /\ (100 <= v /\ v < 300) => r.val[1] = "Ifr"
           /\ (300 <= v /\ v <= 500) => r.val[1] = "MarginalVfr"
           /\ v > 500 => r.val[1] = "Vfr"

C7_Witness ==
    /\ input.kind = "visibility"
    /\ input.visibility = Some([unit |-> "StatuteMiles", visibility |-> 300])
    /\ output = Some(Ok("MarginalVfr"))

\* C8: the ceiling rule depends only on the set of known altitudes of the
\* Broken and Overcast layers: Vfr when the set is empty, otherwise with a
\* its least element LowIfr when a < 5, Ifr when 5 <= a < 10, MarginalVfr
\* when 10 <= a <= 30 and Vfr when a > 30.
C8_CeilingTable ==
    (input.kind = "cloud_layers" /\ output # None)
    => LET l == input.cloud_layers
           C == {l[k].altitude[1] :
                    k \in {j \in DOMAIN l : /\ l[j].coverage \in {"Broken", "Overcast"}
                                            /\ l[j].altitude # None}}
           a == CHOOSE x \in C : \A y \in C : x <= y
       IN  output[1] = Ok(IF C = {} THEN "Vfr"
                          ELSE IF a < 5 THEN "LowIfr"
                          ELSE IF a < 10 THEN "Ifr"
                          ELSE IF a <= 30 THEN "MarginalVfr"
                          ELSE "Vfr")

C8_Witness ==
    /\ input.kind = "cloud_layers"
    /\ input.cloud_layers = <<[coverage |-> "Few", altitude |-> Some(4)],
                              [coverage |-> "Broken", altitude |-> Some(30)]>>
    /\ output = Some(Ok("MarginalVfr"))

\* the microcontroller's parse of the byte stream: digit+ [prbg], repeated
IsDigit(c) == \E d \in 0..9 : DigitChars[d + 1] = c
DigitValue(c) == CHOOSE d \in 0..9 : DigitChars[d + 1] = c
ColorBytes == {"p", "r", "b", "g"}
ColorOfByte(c) == CHOOSE color \in {"Purple", "Red", "Blue", "Green"} : ColorDisplay(color) = c

RECURSIVE DecodeFrom(_, _, _, _)
DecodeFrom(bytes, digits, number, frames) ==
    IF bytes = <<>> THEN [ok |-> digits = 0, frames |-> frames]
    ELSE IF IsDigit(Head(bytes))
         THEN DecodeFrom(Tail(bytes), digits + 1, number * 10 + DigitValue(Head(bytes)), frames)
    ELSE IF Head(bytes) \in ColorBytes /\ digits > 0
         THEN DecodeFrom(Tail(bytes), 0, 0,
                         Append(frames, [color |-> ColorOfByte(Head(bytes)), port |-> number]))
    ELSE [ok |-> FALSE, frames |-> frames]

Decode(bytes) == DecodeFrom(bytes, 0, 0, <<>>)

\* C9: the bytes on the serial link are, for each assignment written, the
\* decimal digits of its LED index followed by its colour byte, so the byte
\* stream decodes to exactly the assignments written, with no partial frame.
C9_WireDecodesToAssignments ==
    LET d == Decode(wire) IN d.ok /\ d.frames = acked

\* C10 as stated: the results of all fetches are collected before the
\* serial link is opened, and a failed open leaves the fetches issued.
C10_FetchBeforeOpen ==
    /\ openHandles > 0 => \A a \in Roster : outcome[a] # None
    /\ (TickOver /\ exit = "open_err") => issued = Roster

\* C10 amended: the serial link is opened while the fetches are only
\* created; a fetch is started or finished only under an open handle, a
\* failed open ends the tick with no fetch issued, all results are
\* collected before the first write, and the writes follow the roster's
\* iteration order.
C10_OpenBeforeFetch ==
    /\ (\E a \in Roster : fut[a].state \in {"fetching", "done"}) => openHandles = 1
    /\ (TickOver /\ exit = "open_err") => (issued = {} /\ attempted = <<>>)
    /\ (pc = "loop" \/ attempted # <<>>) => \A a \in Roster : outcome[a] # None
    /\ Len(attempted) <= Len(order)
    /\ \A k \in DOMAIN attempted : attempted[k] = order[k]

C10_Witness ==
    /\ pc = "loop"
    /\ openHandles = 1
    /\ Len(attempted) = Len(order)
    /\ issued = Roster

====
